---- MODULE Spec2Model ----
(***************************************************************************)
(* pronostik-backend: the games controller (load / mutate / save handlers) *)
(* and the game model (schema validators, getScoreboard).                  *)
(*                                                                         *)
(* A game document is [exists, players, tracks]; a track is                *)
(* [id, name, artists, scores, played]; a score is [player, score].        *)
(* The game's name/description/image are optional strings without          *)
(* validators and take no part in any handler's control flow: omitted.     *)
(***************************************************************************)
EXTENDS Integers, Sequences, FiniteSets, TLC

\* ---- bounds of the model ----
MaxPlayers == 2      \* longest players list a join may produce
MaxTracks == 1       \* number of track ids ever handed out
MaxScores == 1       \* scores stored in one game document
MaxRaces == 1        \* loads made while another request is in flight

\* ---- inputs ----
Users == {"A", "B"}                      \* res.locals.authUser
GameIds == {"G"}                         \* req.params.gameId
Reqs == {1, 2}                           \* requests in flight at the same time
TrackIdParams == 0 .. MaxTracks          \* req.params.trackId (0 is never a track's id)
ScoreValues == {-1, 0, 7, 10, 11}        \* req.body.score when present
Undefined == "undefined"                 \* a name the body does not carry

\* Request bodies are records; a key the body lacks is not in its DOMAIN.
EmptyBody == [other |-> TRUE]
Has(body, key) == key \in DOMAIN body
ScoreBodies == {[score |-> s] : s \in ScoreValues} \cup {EmptyBody}
PlayedBodies == {[played |-> b] : b \in BOOLEAN} \cup {EmptyBody}
TrackBodies ==
  {[name |-> n, artists |-> a] : n \in {"", "Song1"}, a \in {<<>>, <<"Band1">>}}
    \cup {[name |-> n] : n \in {"", "Song1"}}
    \cup {[artists |-> a] : a \in {<<>>, <<"Band1">>}}
    \cup {EmptyBody}

\* The two track schemas of the repository (src/models/game-model.ts and
\* part_002), and the two ways the persistence layer's save() can write a
\* loaded document back: the whole document, or only the changes made to it
\* since the load (a push on a list, a set on a field). The handlers do not
\* decide which; a version conflict that a change-only write could raise is
\* not modelled, such a save is taken to succeed.
Schemas == {"game-model.ts", "part_002"}
SaveModes == {"document", "delta"}

VARIABLES
  store,        \* the games collection: gameId -> document
  reqs,         \* the handlers suspended between findById and save
  out,          \* the response the last step sent, if it sent one
  nextTrackId,  \* the next id a pushed track subdocument gets
  races,        \* how many more loads may overlap a request in flight
  schema,       \* which track schema the model is built with
  saveMode      \* how save() writes

vars == <<store, reqs, out, nextTrackId, races, schema, saveMode>>

NoGame == [exists |-> FALSE, players |-> <<>>, tracks |-> <<>>]
Idle == [op |-> "idle", gid |-> "-", doc |-> NoGame]
\* A response: the handler, the HTTP status, the error code of the body, the
\* board of a scoreboard answer. lost is bookkeeping, not part of the answer:
\* the save behind a 200 left a document other than the one the handler
\* would have left had it loaded at the time of its save.
NoResp == [op |-> "none", status |-> 0, error |-> "", board |-> <<>>, lost |-> FALSE]
Resp(op, status, error) ==
  [op |-> op, status |-> status, error |-> error, board |-> <<>>, lost |-> FALSE]

\* ---------------------------------------------------------------------------
\* Schema validators
\* ---------------------------------------------------------------------------

\* createGameTrackScoreSchema: player required; score required, min 0, max 10.
\* (ValidScoreNoMax: the schema without its max, to show that C3 rests on it.)
ValidScoreNoMax(s) == s.player \in Users /\ s.score >= 0
ValidScore(s) == s.player \in Users /\ s.score >= 0 /\ s.score <= 10

\* createGameTrackSchema.name: required (an empty string does not satisfy it).
\* (ValidNameAny: the schema without the requirement, to show that C6 rests
\* on it.)
ValidNameAny(name) == TRUE
ValidName(name) == name # Undefined /\ name # ""

\* createGameTrackSchema.artists: artists != null && artists.length >= 1.
ValidArtists(artists) == Len(artists) >= 1

\* createGameTrackSchema.scores: game-model.ts validates scores.length >= 10;
\* part_002 has no validator on the list (default []).
ValidScoresList(scores) ==
  IF schema = "game-model.ts" THEN Len(scores) >= 10 ELSE TRUE

ValidTrack(t) ==
  /\ ValidName(t.name)
  /\ ValidArtists(t.artists)
  /\ ValidScoresList(t.scores)
  /\ \A i \in 1 .. Len(t.scores) : ValidScore(t.scores[i])

\* createGameSchema.players: players != null && players.length >= 1.
ValidPlayers(players) == Len(players) >= 1

\* What save() / create() validate before writing.
ValidGame(g) ==
  /\ ValidPlayers(g.players)
  /\ \A i \in 1 .. Len(g.tracks) : ValidTrack(g.tracks[i])

\* ---------------------------------------------------------------------------
\* getScoreboard
\* ---------------------------------------------------------------------------
RECURSIVE SumTo(_, _)
SumTo(f, n) == IF n = 0 THEN 0 ELSE f[n] + SumTo(f, n - 1)

\* One track's part of a player's aggregate: + when played, - when not.
\* (TrackContributionUnsigned: without the sign, to show that C1 rests on it.)
TrackContributionUnsigned(track, player) ==
  LET mine == SelectSeq(track.scores, LAMBDA ts : ts.player = player)
  IN SumTo([i \in 1 .. Len(mine) |-> mine[i].score], Len(mine))
TrackContribution(track, player) ==
  LET mine == SelectSeq(track.scores, LAMBDA ts : ts.player = player)
  IN SumTo([i \in 1 .. Len(mine) |->
              IF track.played THEN mine[i].score ELSE 0 - mine[i].score],
           Len(mine))

PlayerScore(game, player) ==
  SumTo([i \in 1 .. Len(game.tracks) |-> TrackContribution(game.tracks[i], player)],
        Len(game.tracks))

\* Array.prototype.sort((a, b) => b.score - a.score): stable, descending.
RECURSIVE InsertEntry(_, _)
InsertEntry(sorted, e) ==
  IF Len(sorted) = 0 THEN <<e>>
  ELSE IF Head(sorted).score >= e.score
       THEN <<Head(sorted)>> \o InsertEntry(Tail(sorted), e)
       ELSE <<e>> \o sorted

RECURSIVE SortBoard(_)
SortBoard(b) ==
  IF Len(b) = 0 THEN <<>>
  ELSE InsertEntry(SortBoard(SubSeq(b, 1, Len(b) - 1)), b[Len(b)])

getScoreboard(gid, game) ==
  LET pushed == [i \in 1 .. Len(game.players) |->
                   [player |-> game.players[i],
                    score |-> PlayerScore(game, game.players[i])]]
      sorted == SortBoard(pushed)
  IN [gameId |-> gid,
      board |-> [i \in 1 .. Len(sorted) |->
                   [player |-> sorted[i].player,
                    score |-> sorted[i].score,
                    position |-> i]]]

\* ---------------------------------------------------------------------------
\* Persistence
\* ---------------------------------------------------------------------------

\* game.tracks.find(track => track.id === trackId): its index, 0 when none.
TrackIndex(game, tid) ==
  IF \E i \in 1 .. Len(game.tracks) : game.tracks[i].id = tid
  THEN CHOOSE i \in 1 .. Len(game.tracks) : game.tracks[i].id = tid
  ELSE 0

RECURSIVE CountScores(_, _)
CountScores(game, n) ==
  IF n = 0 THEN 0 ELSE Len(game.tracks[n].scores) + CountScores(game, n - 1)
TotalScores(game) == CountScores(game, Len(game.tracks))

\* The change a handler made to its loaded document, as save() sends it in
\* "delta" mode, applied to the stored document.
ApplyDelta(cur, d) ==
  CASE d.kind = "pushPlayer" -> [cur EXCEPT !.players = Append(@, d.v)]
    [] d.kind = "pushTrack" -> [cur EXCEPT !.tracks = Append(@, d.v)]
    [] d.kind = "pushScore" -> [cur EXCEPT !.tracks[d.i].scores = Append(@, d.v)]
    [] d.kind = "setPlayed" -> [cur EXCEPT !.tracks[d.i].played = d.v]
    [] OTHER -> cur

\* The stored document after a successful save of doc (the loaded document
\* with the handler's change d made to it).
Saved(cur, doc, d) ==
  IF saveMode = "document" THEN doc ELSE ApplyDelta(cur, d)

Empty ==
  /\ store = [g \in GameIds |-> NoGame]
  /\ reqs = [r \in Reqs |-> Idle]
  /\ out = NoResp
  /\ nextTrackId = 1
  /\ schema \in Schemas

\* One request at a time. A save then writes what it loaded plus its own
\* change, which is the same document in both save modes: one is fixed.
Init == Empty /\ races = 0 /\ saveMode = "document"

\* Requests may overlap: a handler suspended in findById or save lets
\* another handler run.
InitRace == Empty /\ races = MaxRaces /\ saveMode \in SaveModes

Static == UNCHANGED <<schema, saveMode>>

\* ---------------------------------------------------------------------------
\* createHandler: POST /games
\* ---------------------------------------------------------------------------
\* players: [res.locals.authUser], tracks by default [].
\* (CreateDocNoPlayers: a create that forgets the user, to show that C2 rests
\* on the handler.)
CreateDocNoPlayers(u) == [exists |-> TRUE, players |-> <<>>, tracks |-> <<>>]
CreateDoc(u) == [exists |-> TRUE, players |-> <<u>>, tracks |-> <<>>]

createHandler(u, gid) ==
  /\ ~store[gid].exists                 \* gid is the new document's id
  /\ IF ValidGame(CreateDoc(u))
     THEN /\ store' = [store EXCEPT ![gid] = CreateDoc(u)]
          /\ out' = Resp("create", 201, "")
     ELSE /\ out' = Resp("create", 400, "validation")
          /\ UNCHANGED store
  /\ UNCHANGED <<reqs, nextTrackId, races>>
  /\ Static

\* ---------------------------------------------------------------------------
\* scoreboardHandler: GET /games/:gameId/scoreboard
\* ---------------------------------------------------------------------------
scoreboardHandler(gid) ==
  /\ out' = IF store[gid].exists
            THEN [Resp("scoreboard", 200, "") EXCEPT
                    !.board = getScoreboard(gid, store[gid]).board]
            ELSE Resp("scoreboard", 404, "not_found")
  /\ UNCHANGED <<store, reqs, nextTrackId, races>>
  /\ Static

\* ---------------------------------------------------------------------------
\* The steps joinHandler, addTrackHandler, addScoreHandler and playedHandler
\* share. A request body is an input that no step changes; a slot does not
\* keep it, each step draws what it reads of it.
\* ---------------------------------------------------------------------------
InFlight == {q \in Reqs : reqs[q].op # "idle"}

\* await findById(gameId): 404 when the game is absent, else the handler
\* holds the document it loaded until its save.
Load(r, op, gid) ==
  /\ reqs[r].op = "idle"
  /\ \A q \in Reqs : q < r => reqs[q].op # "idle"    \* the first free slot
  /\ InFlight = {} \/ races > 0
  /\ IF store[gid].exists
     THEN /\ reqs' = [reqs EXCEPT ![r] = [op |-> op, gid |-> gid, doc |-> store[gid]]]
          /\ out' = NoResp
          /\ races' = IF InFlight = {} THEN races ELSE races - 1
     ELSE /\ out' = Resp(op, 404, "not_found")
          /\ UNCHANGED <<reqs, races>>
  /\ UNCHANGED <<store, nextTrackId>>
  /\ Static

\* await game.save() and the answer: doc2 is the loaded document with the
\* handler's change d; fresh is what the handler would have built from the
\* stored document.
Save(r, op, doc2, d, fresh) ==
  /\ IF ValidGame(doc2)
     THEN /\ store' = [store EXCEPT ![reqs[r].gid] = Saved(@, doc2, d)]
          /\ out' = [Resp(op, 200, "") EXCEPT
                       !.lost = (Saved(store[reqs[r].gid], doc2, d) # fresh)]
     ELSE /\ out' = Resp(op, 400, "validation")
          /\ UNCHANGED store
  /\ reqs' = [reqs EXCEPT ![r] = Idle]

\* An exception that is no ValidationError: caught, logged, 500.
\* (FaultNotFound: the handler answering a missing track as it answers a
\* missing game, to show that C11 rests on the catch.)
FaultNotFound(r, op) ==
  /\ out' = Resp(op, 404, "not_found")
  /\ reqs' = [reqs EXCEPT ![r] = Idle]
  /\ UNCHANGED store
Fault(r, op) ==
  /\ out' = Resp(op, 500, "server_error")
  /\ reqs' = [reqs EXCEPT ![r] = Idle]
  /\ UNCHANGED store

\* ---------------------------------------------------------------------------
\* joinHandler: PUT /games/:gameId/join
\* ---------------------------------------------------------------------------
joinLoad(r, gid) == Load(r, "join", gid)

\* game.players.push(res.locals.authUser)
\* (JoinedDocUnique: a join that skips a user already there, to show that C7
\* rests on the push.)
JoinedDocUnique(doc, u) ==
  IF \E i \in 1 .. Len(doc.players) : doc.players[i] = u
  THEN doc ELSE [doc EXCEPT !.players = Append(@, u)]
JoinedDoc(doc, u) == [doc EXCEPT !.players = Append(@, u)]

joinSave(r, u) ==
  /\ reqs[r].op = "join"
  /\ Len(reqs[r].doc.players) < MaxPlayers
  /\ Len(store[reqs[r].gid].players) < MaxPlayers
  /\ Save(r, "join", JoinedDoc(reqs[r].doc, u), [kind |-> "pushPlayer", v |-> u],
          JoinedDoc(store[reqs[r].gid], u))
  /\ UNCHANGED <<nextTrackId, races>>
  /\ Static

\* ---------------------------------------------------------------------------
\* addTrackHandler: POST /games/:gameId/tracks
\* ---------------------------------------------------------------------------
addTrackLoad(r, gid) == Load(r, "addTrack", gid)

\* The subdocument { name, artists } becomes when pushed: a new id, and the
\* schema's defaults for what the body does not give.
NewTrack(body, id) ==
  [id |-> id,
   name |-> IF Has(body, "name") THEN body.name ELSE Undefined,
   artists |-> IF Has(body, "artists") THEN body.artists ELSE <<>>,
   scores |-> <<>>,
   played |-> FALSE]

\* game.tracks.push({ name, artists })
TrackAdded(doc, body, id) == [doc EXCEPT !.tracks = Append(@, NewTrack(body, id))]

addTrackSave(r, body) ==
  /\ reqs[r].op = "addTrack"
  /\ LET doc2 == TrackAdded(reqs[r].doc, body, nextTrackId)
     IN /\ ValidGame(doc2) => nextTrackId <= MaxTracks
        /\ Save(r, "addTrack", doc2,
                [kind |-> "pushTrack", v |-> NewTrack(body, nextTrackId)],
                TrackAdded(store[reqs[r].gid], body, nextTrackId))
        /\ nextTrackId' = IF ValidGame(doc2) THEN nextTrackId + 1 ELSE nextTrackId
  /\ UNCHANGED races
  /\ Static

\* ---------------------------------------------------------------------------
\* addScoreHandler: PUT /games/:gameId/tracks/:trackId/score
\* ---------------------------------------------------------------------------
\* (addScoreLoadLookupFirst: the handler with the lookup before the check of
\* the body, to show that C10 rests on their order.)
addScoreLoadLookupFirst(r, gid, body) ==
  IF store[gid].exists /\ ~Has(body, "score")
  THEN /\ out' = Resp("addScore", 400, "invalid_request")
       /\ UNCHANGED <<store, reqs, nextTrackId, races>>
       /\ Static
  ELSE Load(r, "addScore", gid)

\* if (score == null) return 400, then findById.
addScoreLoad(r, gid, body) ==
  IF ~Has(body, "score")
  THEN /\ out' = Resp("addScore", 400, "invalid_request")
       /\ UNCHANGED <<store, reqs, nextTrackId, races>>
       /\ Static
  ELSE Load(r, "addScore", gid)

\* track.scores.push({ player: res.locals.authUser, score })
ScoreAdded(doc, i, u, body) ==
  [doc EXCEPT !.tracks[i].scores = Append(@, [player |-> u, score |-> body.score])]

addScoreSave(r, u, tid, body) ==
  /\ reqs[r].op = "addScore"
  /\ Has(body, "score")
  /\ LET doc == reqs[r].doc
         cur == store[reqs[r].gid]
         i == TrackIndex(doc, tid)
         j == TrackIndex(cur, tid)
     IN IF i = 0
        THEN Fault(r, "addScore")       \* track is undefined: track.scores throws
        ELSE /\ ValidGame(ScoreAdded(doc, i, u, body)) =>
                  TotalScores(doc) < MaxScores /\ TotalScores(cur) < MaxScores
             /\ Save(r, "addScore", ScoreAdded(doc, i, u, body),
                     [kind |-> "pushScore", i |-> i,
                      v |-> [player |-> u, score |-> body.score]],
                     IF j = 0 THEN NoGame ELSE ScoreAdded(cur, j, u, body))
  /\ UNCHANGED <<nextTrackId, races>>
  /\ Static

\* ---------------------------------------------------------------------------
\* playedHandler: PUT /games/:gameId/tracks/:trackId/played
\* ---------------------------------------------------------------------------
playedLoad(r, gid) == Load(r, "played", gid)

\* req.body.played || !track.played
\* (NewPlayedNoToggle: without the negation, to show that C8 rests on it.)
NewPlayedNoToggle(body, played) == (Has(body, "played") /\ body.played) \/ played
NewPlayed(body, played) == (Has(body, "played") /\ body.played) \/ ~played

\* track.played = req.body.played || !track.played
PlayedSet(doc, i, body) == [doc EXCEPT !.tracks[i].played = NewPlayed(body, @)]

\* (playedSaveAtomic: the step taking the track from the stored document,
\* as a handler that loaded and saved in one step would, to show that C9
\* rests on the load being apart from the save.)
playedSaveAtomic(r, tid, body) ==
  /\ reqs[r].op = "played"
  /\ LET cur == store[reqs[r].gid]
         j == TrackIndex(cur, tid)
     IN IF j = 0
        THEN Fault(r, "played")
        ELSE Save(r, "played", PlayedSet(cur, j, body),
                  [kind |-> "setPlayed", i |-> j, v |-> PlayedSet(cur, j, body).tracks[j].played],
                  PlayedSet(cur, j, body))
  /\ UNCHANGED <<nextTrackId, races>>
  /\ Static

playedSave(r, tid, body) ==
  /\ reqs[r].op = "played"
  /\ LET doc == reqs[r].doc
         cur == store[reqs[r].gid]
         i == TrackIndex(doc, tid)
         j == TrackIndex(cur, tid)
     IN IF i = 0
        THEN Fault(r, "played")         \* track is undefined: track.played throws
        ELSE LET v == NewPlayed(body, doc.tracks[i].played)
             IN Save(r, "played", PlayedSet(doc, i, body),
                     IF v = doc.tracks[i].played
                     THEN [kind |-> "none"]      \* nothing was modified
                     ELSE [kind |-> "setPlayed", i |-> i, v |-> v],
                     IF j = 0 THEN NoGame ELSE PlayedSet(cur, j, body))
  /\ UNCHANGED <<nextTrackId, races>>
  /\ Static

Next ==
  \/ \E u \in Users, gid \in GameIds : createHandler(u, gid)
  \/ \E gid \in GameIds : scoreboardHandler(gid)
  \/ \E r \in Reqs, gid \in GameIds : joinLoad(r, gid)
  \/ \E r \in Reqs, u \in Users : joinSave(r, u)
  \/ \E r \in Reqs, gid \in GameIds : addTrackLoad(r, gid)
  \/ \E r \in Reqs, body \in TrackBodies : addTrackSave(r, body)
  \/ \E r \in Reqs, gid \in GameIds, body \in ScoreBodies : addScoreLoad(r, gid, body)
  \/ \E r \in Reqs, u \in Users, tid \in TrackIdParams, body \in ScoreBodies :
       addScoreSave(r, u, tid, body)
  \/ \E r \in Reqs, gid \in GameIds : playedLoad(r, gid)
  \/ \E r \in Reqs, tid \in TrackIdParams, body \in PlayedBodies :
       playedSave(r, tid, body)

Spec == Init /\ [][Next]_vars

SpecRace == InitRace /\ [][Next]_vars

\* ===========================================================================
\* Properties
\* ===========================================================================
Games == {gid \in GameIds : store[gid].exists}
Count(seq, P(_)) == Cardinality({i \in 1 .. Len(seq) : P(seq[i])})

\* A player's aggregate, written from the statement rather than from the
\* code: the sum over the score entries (track t, entry s) of that player.
EntriesOf(game, player) ==
  {e \in (1 .. Len(game.tracks)) \X (1 .. MaxScores + 1) :
     /\ e[2] <= Len(game.tracks[e[1]].scores)
     /\ game.tracks[e[1]].scores[e[2]].player = player}
SignedScore(game, e) ==
  IF game.tracks[e[1]].played
  THEN game.tracks[e[1]].scores[e[2]].score
  ELSE 0 - game.tracks[e[1]].scores[e[2]].score
RECURSIVE SumEntries(_, _)
SumEntries(game, S) ==
  IF S = {} THEN 0
  ELSE LET e == CHOOSE x \in S : TRUE
       IN SignedScore(game, e) + SumEntries(game, S \ {e})
Aggregate(game, player) == SumEntries(game, EntriesOf(game, player))

C2_PlayersInvariant ==
  /\ \A gid \in Games : Len(store[gid].players) >= 1
  /\ out.op = "create" =>
       /\ out.status = 201
       /\ \E gid \in Games, u \in Users : store[gid] = CreateDoc(u)

\* A second player has joined the game its creator is still in.
C2_Witness ==
  \E gid \in Games :
    /\ out.op = "join" /\ out.status = 200
    /\ Len(store[gid].players) = 2

AllScoresInRange ==
  \A gid \in Games : \A t \in 1 .. Len(store[gid].tracks) :
    \A s \in 1 .. Len(store[gid].tracks[t].scores) :
      /\ store[gid].tracks[t].scores[s].score >= 0
      /\ store[gid].tracks[t].scores[s].score <= 10

\* C3: every stored score is within 0..10; an addScore on a track of the
\* game with a value below 0 or above 10 is answered 400 (validation) and
\* leaves the store as it was; one with a value within 0..10, 0 and 10
\* included, is answered 200 and appends the score to the track.
C3_ScoreBounds ==
  [][/\ AllScoresInRange'
     /\ \A r \in Reqs, u \in Users, tid \in TrackIdParams, body \in ScoreBodies :
          (addScoreSave(r, u, tid, body) /\ TrackIndex(reqs[r].doc, tid) # 0) =>
            LET i == TrackIndex(reqs[r].doc, tid)
                gid == reqs[r].gid
            IN IF body.score < 0 \/ body.score > 10
               THEN /\ out'.status = 400 /\ out'.error = "validation"
                    /\ store' = store
               ELSE /\ out'.status = 200
                    /\ store'[gid].tracks[i].scores =
                         Append(store[gid].tracks[i].scores,
                                [player |-> u, score |-> body.score])]_vars

\* A score of exactly 10 was accepted and is stored.
C3_Witness ==
  /\ out.op = "addScore" /\ out.status = 200
  /\ \E gid \in Games : \E t \in 1 .. Len(store[gid].tracks) :
       \E s \in 1 .. Len(store[gid].tracks[t].scores) :
         store[gid].tracks[t].scores[s].score = 10

\* C4: a played request on a track of the game leaves the track's flag equal
\* to the body's played value when the body carries one, and to the negation
\* of the flag the handler loaded when it carries none.
C4_SetPlayed ==
  [][\A r \in Reqs, tid \in TrackIdParams, body \in PlayedBodies :
       (playedSave(r, tid, body) /\ TrackIndex(reqs[r].doc, tid) # 0) =>
         LET i == TrackIndex(reqs[r].doc, tid)
         IN store'[reqs[r].gid].tracks[i].played =
              IF Has(body, "played") THEN body.played
              ELSE ~reqs[r].doc.tracks[i].played]_vars

GoodTrackBody(body) ==
  /\ Has(body, "name") /\ body.name # ""
  /\ Has(body, "artists") /\ Len(body.artists) >= 1

\* C5: an addTrack with a non-empty name and at least one artist is answered
\* 200 and appends one track, with no scores and played = FALSE, after the
\* tracks the game had, which stay as they were, as do the players.
C5_AddTrack ==
  [][\A r \in Reqs, body \in TrackBodies :
       (addTrackSave(r, body) /\ GoodTrackBody(body)) =>
         LET old == store[reqs[r].gid]
             new == store'[reqs[r].gid]
         IN /\ out'.status = 200
            /\ new.players = old.players
            /\ Len(new.tracks) = Len(old.tracks) + 1
            /\ SubSeq(new.tracks, 1, Len(old.tracks)) = old.tracks
            /\ new.tracks[Len(new.tracks)].scores = <<>>
            /\ new.tracks[Len(new.tracks)].played = FALSE
            /\ new.tracks[Len(new.tracks)].name = body.name
            /\ new.tracks[Len(new.tracks)].artists = body.artists]_vars

AllTracksNamed ==
  \A gid \in Games : \A t \in 1 .. Len(store[gid].tracks) :
    /\ store[gid].tracks[t].name # ""
    /\ store[gid].tracks[t].name # Undefined
    /\ Len(store[gid].tracks[t].artists) >= 1

\* C6: every stored track has a non-empty name and at least one artist; an
\* addTrack whose name is missing or empty, or whose artists are missing or
\* empty, is answered 400 (validation) and leaves the store as it was.
C6_TrackInvariant ==
  [][/\ AllTracksNamed'
     /\ \A r \in Reqs, body \in TrackBodies :
          (addTrackSave(r, body) /\ ~GoodTrackBody(body)) =>
            /\ out'.status = 400 /\ out'.error = "validation"
            /\ store' = store]_vars

\* Under the schema that accepts tracks, a game that has a track refused
\* another one and kept the track it had.
C6_Witness ==
  /\ schema = "part_002"
  /\ out.op = "addTrack" /\ out.status = 400 /\ out.error = "validation"
  /\ \E gid \in Games : Len(store[gid].tracks) = 1

RECURSIVE BoardTotal(_, _, _)
BoardTotal(board, u, n) ==
  IF n = 0 THEN 0
  ELSE (IF board[n].player = u THEN board[n].score ELSE 0) + BoardTotal(board, u, n - 1)

\* C7: a join is answered 200 and appends the user to players whether or
\* not the user is already there; the scoreboard then has one entry per
\* occurrence, each with the player's aggregate, so that a player who is
\* twice in players has their scores counted twice over the board.
C7_JoinNotIdempotent ==
  [][/\ \A r \in Reqs, u \in Users :
          joinSave(r, u) =>
            /\ out'.status = 200
            /\ store'[reqs[r].gid].players = Append(store[reqs[r].gid].players, u)
     /\ \A gid \in Games, u \in Users :
          LET game == store'[gid]
              board == getScoreboard(gid, game).board
              n == Count(game.players, LAMBDA p : p = u)
          IN /\ Count(board, LAMBDA b : b.player = u) = n
             /\ BoardTotal(board, u, Len(board)) = n * Aggregate(game, u)]_vars

\* B, who created the game, joined it again and has 7 on an unplayed track:
\* the scoreboard lists B twice, -7 each time.
C7_Witness ==
  /\ out.op = "scoreboard" /\ out.status = 200
  /\ \E gid \in Games : store[gid].players = <<"B", "B">>
  /\ out.board = <<[player |-> "B", score |-> 0 - 7, position |-> 1],
                   [player |-> "B", score |-> 0 - 7, position |-> 2]>>

SevenByB(game) ==
  /\ Len(game.players) >= 1 /\ game.players[1] = "A"
  /\ Len(game.tracks) = 1
  /\ game.tracks[1].scores = <<[player |-> "B", score |-> 7]>>
HasEntry(gid, game, u, score) ==
  \E i \in 1 .. Len(game.players) :
    /\ getScoreboard(gid, game).board[i].player = u
    /\ getScoreboard(gid, game).board[i].score = score

\* C8, as stated: once A has created the game, a track was added and B has
\* submitted 7 for it, the scoreboard has an entry for B, of -7 while the
\* track is unplayed and of 7 once it is played.
C8_EndToEnd_AsStated ==
  \A gid \in Games :
    SevenByB(store[gid]) =>
      HasEntry(gid, store[gid], "B", IF store[gid].tracks[1].played THEN 7 ELSE 0 - 7)

\* C8, amended: the same once B has also joined the game; and a played
\* request with played = TRUE leaves the track played, one with no body on a
\* played track leaves it unplayed.
C8_EndToEnd ==
  [][/\ \A gid \in Games :
          (SevenByB(store'[gid]) /\ \E k \in 1 .. Len(store'[gid].players) :
                                      store'[gid].players[k] = "B") =>
            HasEntry(gid, store'[gid], "B",
                     IF store'[gid].tracks[1].played THEN 7 ELSE 0 - 7)
     /\ \A r \in Reqs, tid \in TrackIdParams, body \in PlayedBodies :
          (playedSave(r, tid, body) /\ TrackIndex(reqs[r].doc, tid) # 0) =>
            LET i == TrackIndex(reqs[r].doc, tid)
                was == reqs[r].doc.tracks[i].played
                now == store'[reqs[r].gid].tracks[i].played
            IN /\ out'.status = 200
               /\ (Has(body, "played") /\ body.played) => now
               /\ (~Has(body, "played") /\ was) => ~now]_vars

\* The end of the sequence: A created, B joined, B's 7 is on the track, and
\* the last played request left the track unplayed (so it was played).
C8_Witness ==
  /\ out.op = "played" /\ out.status = 200
  /\ \E gid \in Games :
       /\ store[gid].players = <<"A", "B">>
       /\ SevenByB(store[gid])
       /\ ~store[gid].tracks[1].played

C10_MissingScore ==
  [][\A r \in Reqs, gid \in GameIds, body \in ScoreBodies :
       (addScoreLoad(r, gid, body) /\ ~Has(body, "score")) =>
         /\ out'.status = 400 /\ out'.error = "invalid_request"
         /\ store' = store
         /\ reqs' = reqs]_vars

\* The 400 was given for a game that does not exist.
C10_Witness ==
  /\ out.op = "addScore" /\ out.status = 400 /\ out.error = "invalid_request"
  /\ Games = {}

\* C11: when the game a handler loaded has no track with the requested id,
\* an addScore that carries a score and a played request are both answered
\* 500 (neither 404 nor 200), nothing is saved, and the stored games are as
\* they were.
C11_TrackNotFound ==
  [][/\ \A r \in Reqs, u \in Users, tid \in TrackIdParams, body \in ScoreBodies :
          (addScoreSave(r, u, tid, body) /\ TrackIndex(reqs[r].doc, tid) = 0) =>
            /\ out'.op = "addScore"
            /\ out'.status = 500 /\ out'.error = "server_error"
            /\ store' = store
     /\ \A r \in Reqs, tid \in TrackIdParams, body \in PlayedBodies :
          (playedSave(r, tid, body) /\ TrackIndex(reqs[r].doc, tid) = 0) =>
            /\ out'.op = "played"
            /\ out'.status = 500 /\ out'.error = "server_error"
            /\ store' = store]_vars

\* A request on a game that has a track, for an id that is not the track's,
\* was answered 500.
C11_Witness ==
  /\ out.status = 500 /\ out.op \in {"addScore", "played"}
  /\ \E gid \in Games : Len(store[gid].tracks) >= 1

====
